---- MODULE Spec2Model ----
(***************************************************************************)
(* Model of nonlinear-heat/nonlinear_heat.py: the residual F, the Jacobian *)
(* generate_jacobian, the Newton loop newton_step and the timestep loop of *)
(* run_heat_sim / heat_compare_gif.                                        *)
(*                                                                         *)
(* Arithmetic.  A float is modelled as an exact rational <<num, den>> in   *)
(* lowest terms with den > 0, or as NaN == <<0, 0>>.  Every operation with *)
(* a NaN operand yields NaN (also 0 * NaN) and every comparison with a NaN *)
(* is false, as in IEEE-754.  Rounding and infinities are not modelled.    *)
(*                                                                         *)
(* Arrays.  A numpy array is an object on `heap`; a Python name is a       *)
(* reference into the heap, so that `a = b` shares the object and          *)
(* `a -= x` updates it in place for every name bound to it.                *)
(***************************************************************************)
EXTENDS Integers, Sequences, FiniteSets, TLC

\* ------------------------------------------------------------------ bounds
MaxN == 3
MaxVal == 1
MaxSteps == 2
MaxMag == 600

\* ------------------------------------------------------- program constants
\* for i in range(100)
MaxIter == 100
\* 1e-9 as 1 / TolInv
TolInv == 1000000000

\* ------------------------------------------------------------ float values
NaN == <<0, 0>>

IsNaN(x) == x[2] = 0

Abs(i) == IF i < 0 THEN -i ELSE i

RECURSIVE GCD(_, _)
GCD(a, b) == IF b = 0 THEN a ELSE GCD(b, a % b)

\* the rational p/q (q # 0) in lowest terms with a positive denominator
Frac(p, q) ==
    LET g == GCD(Abs(p), Abs(q))
        s == IF q < 0 THEN -1 ELSE 1
    IN  <<s * (p \div g), s * (q \div g)>>

R(i) == <<i, 1>>

Zero == R(0)

One == R(1)

RNeg(x) == IF IsNaN(x) THEN NaN ELSE <<-x[1], x[2]>>

RAdd(x, y) ==
    IF IsNaN(x) \/ IsNaN(y) THEN NaN
    ELSE LET g == GCD(x[2], y[2])
         IN  Frac(x[1] * (y[2] \div g) + y[1] * (x[2] \div g), (x[2] \div g) * y[2])

RSub(x, y) == RAdd(x, RNeg(y))

RMul(x, y) ==
    IF IsNaN(x) \/ IsNaN(y) THEN NaN
    ELSE LET g1 == GCD(Abs(x[1]), y[2])
             g2 == GCD(Abs(y[1]), x[2])
         IN  Frac((x[1] \div g1) * (y[1] \div g2), (x[2] \div g2) * (y[2] \div g1))

\* x / y for y # 0
RDiv(x, y) ==
    IF IsNaN(x) \/ IsNaN(y) THEN NaN
    ELSE RMul(x, Frac(y[2], y[1]))

\* the literals 0.25, 0.5 and 2 of the source
Quarter == Frac(1, 4)

Half == Frac(1, 2)

Two == R(2)

\* ------------------------------------------------------------------ arrays
\* u[i] with Python's 0-based index (0 <= i < len(u))
At(u, i) == u[i + 1]

InRange(u, i) == 0 <= i /\ i < Len(u)

IsFiniteVec(u) == \A p \in 1..Len(u) : ~IsNaN(u[p])

ZeroVec(n) == [p \in 1..n |-> Zero]

NaNVec(n) == [p \in 1..n |-> NaN]

\* the array with the entries of v, each computed once
Arr(v) == v \o <<>>

\* elementwise a - b
VecSub(a, b) == Arr([p \in 1..Len(a) |-> RSub(a[p], b[p])])

\* a call's outcome: a returned value or a raised exception
Ret(v) == [exc |-> "", val |-> v]

Raise(e) == [exc |-> e, val |-> <<>>]

\* ------------------------------------------------------------- diffusivity
\* The triples (k, dk, ddk) handed to the solver.  "const" is k(u) = k0 with
\* dk = ddk = 0 (k0 = 1 is the 'linear: k=1' baseline), "affine" is
\* k(u) = 1 + u, "square" is k(u) = u^2 and "rational" is the
\* k = 0.5/(1 + u^2) of the plots.
ConstK(k0) == [kind |-> "const", k0 |-> R(k0)]

AffineK == [kind |-> "affine", k0 |-> One]

SquareK == [kind |-> "square", k0 |-> Zero]

RationalK == [kind |-> "rational", k0 |-> Half]

Sq(x) == RMul(x, x)

K(km, x) ==
    CASE km.kind = "const" -> km.k0
      [] km.kind = "affine" -> RAdd(One, x)
      [] km.kind = "square" -> Sq(x)
      [] km.kind = "rational" -> RDiv(Half, RAdd(One, Sq(x)))

DK(km, x) ==
    CASE km.kind = "const" -> Zero
      [] km.kind = "affine" -> One
      [] km.kind = "square" -> RMul(Two, x)
      [] km.kind = "rational" -> RDiv(RNeg(x), Sq(RAdd(One, Sq(x))))

DDK(km, x) ==
    CASE km.kind = "const" -> Zero
      [] km.kind = "affine" -> Zero
      [] km.kind = "square" -> Two
      [] km.kind = "rational" ->
            RDiv(RSub(RMul(R(3), Sq(x)), One),
                 RMul(RAdd(One, Sq(x)), Sq(RAdd(One, Sq(x)))))

\* ---------------------------------------------------------------- F (6-30)
\* du at index i: u[i+1] at i = 0, -u[i-1] at i = len(u)-1, else u[i+1]-u[i-1]
Du(u, i) ==
    IF i = 0 THEN At(u, i + 1)
    ELSE IF i = Len(u) - 1 THEN RNeg(At(u, i - 1))
    ELSE RSub(At(u, i + 1), At(u, i - 1))

\* Ddu with the boundary rows taking u[i] once (a one-sided difference)
DduOneSided(u, i) ==
    IF i = 0 THEN RAdd(RNeg(At(u, i)), At(u, i + 1))
    ELSE IF i = Len(u) - 1 THEN RSub(At(u, i - 1), At(u, i))
    ELSE RAdd(RSub(At(u, i - 1), RMul(Two, At(u, i))), At(u, i + 1))

\* ddu at index i
Ddu(u, i) ==
    IF i = 0 THEN RAdd(RNeg(RMul(Two, At(u, i))), At(u, i + 1))
    ELSE IF i = Len(u) - 1 THEN RSub(At(u, i - 1), RMul(Two, At(u, i)))
    ELSE RAdd(RSub(At(u, i - 1), RMul(Two, At(u, i))), At(u, i + 1))

\* the branch taken at index i reads u[i+1] (i = 0) or u[i-1] (i = len-1 > 0)
\* or both; an index past the end raises IndexError
RowReadsInRange(u, i) ==
    IF i = 0 THEN InRange(u, i + 1)
    ELSE IF i = Len(u) - 1 THEN InRange(u, i - 1)
    ELSE InRange(u, i - 1) /\ InRange(u, i + 1)

\* f[i] = prev[i] - u[i] - c*( 0.25*dk(u[i]) * du**2 + k(u[i]) * ddu )
FEntry(u, prev, c, km, i) ==
    RSub(RSub(At(prev, i), At(u, i)),
         RMul(c, RAdd(RMul(RMul(Quarter, DK(km, At(u, i))), Sq(Du(u, i))),
                      RMul(K(km, At(u, i)), Ddu(u, i)))))

F(u, prev, c, km) ==
    IF \E i \in 0..(Len(u) - 1) : ~RowReadsInRange(u, i)
    THEN Raise("IndexError")
    ELSE Ret(Arr([p \in 1..Len(u) |-> FEntry(u, prev, c, km, p - 1)]))

\* ------------------------------------------------ generate_jacobian (33-66)
\* JDiag with k(u[i]) in place of 2*k(u[i])
JDiagSingleK(u, c, km, i) ==
    RSub(One,
         RMul(c, RSub(RAdd(RMul(RMul(Quarter, DDK(km, At(u, i))), Du(u, i)),
                           RMul(DK(km, At(u, i)), Ddu(u, i))),
                      K(km, At(u, i)))))

\* J[i][i] = 1 - c*(0.25*ddk(u[i])*du + dk(u[i])*ddu - 2*k(u[i]))
JDiag(u, c, km, i) ==
    RSub(One,
         RMul(c, RSub(RAdd(RMul(RMul(Quarter, DDK(km, At(u, i))), Du(u, i)),
                           RMul(DK(km, At(u, i)), Ddu(u, i))),
                      RMul(Two, K(km, At(u, i))))))

\* JSub with the sign of k(u[i]) flipped
JSubFlipped(u, c, km, i) ==
    RMul(c, RAdd(RMul(RMul(Half, DK(km, At(u, i))), Du(u, i)), K(km, At(u, i))))

\* J[i][i-1] = c*(0.5*dk(u[i])*du - k(u[i]))
JSub(u, c, km, i) ==
    RMul(c, RSub(RMul(RMul(Half, DK(km, At(u, i))), Du(u, i)), K(km, At(u, i))))

\* J[i][i+1] = -c*(0.5*dk(u[i])*du + k(u[i]))
JSuper(u, c, km, i) ==
    RMul(RNeg(c), RAdd(RMul(RMul(Half, DK(km, At(u, i))), Du(u, i)), K(km, At(u, i))))

\* entry (i, j) after the loop: np.zeros, then the three diagonals the branch
\* of row i assigns
JEntry(u, c, km, i, j) ==
    IF j = i THEN JDiag(u, c, km, i)
    ELSE IF j = i - 1 /\ i # 0 THEN JSub(u, c, km, i)
    ELSE IF j = i + 1 /\ i # Len(u) - 1 THEN JSuper(u, c, km, i)
    ELSE Zero

generate_jacobian(u, c, km) ==
    IF \E i \in 0..(Len(u) - 1) : ~RowReadsInRange(u, i)
    THEN Raise("IndexError")
    ELSE Ret(Arr([p \in 1..Len(u) |->
                Arr([q \in 1..Len(u) |-> JEntry(u, c, km, p - 1, q - 1)])]))

\* ------------------------------------------------------- np.linalg.solve
\* Determinants are taken of finite matrices only (see Solve).
\* M without its first row and its column j
Minor(M, j) ==
    Arr([p \in 1..(Len(M) - 1) |->
        Arr([q \in 1..(Len(M) - 1) |-> M[p + 1][IF q < j THEN q ELSE q + 1]])])

RECURSIVE Det(_)
RECURSIVE DetSum(_, _)
\* the first j terms of the expansion of Det(M) along its first row
DetSum(M, j) ==
    IF j = 0 THEN Zero
    ELSE IF M[1][j] = Zero THEN DetSum(M, j - 1)
    ELSE LET term == RMul(M[1][j], Det(Minor(M, j)))
         IN  RAdd(DetSum(M, j - 1), IF j % 2 = 1 THEN term ELSE RNeg(term))

Det(M) == IF Len(M) = 1 THEN M[1][1] ELSE DetSum(M, Len(M))

\* M with its column j replaced by b
WithColumn(M, j, b) ==
    Arr([p \in 1..Len(M) |->
        Arr([q \in 1..Len(M) |-> IF q = j THEN b[p] ELSE M[p][q]])])

IsFiniteMat(M) == \A p \in 1..Len(M) : IsFiniteVec(M[p])

\* The outcomes of np.linalg.solve(M, b).  On finite input: LinAlgError when M
\* is singular, else the solution of M x = b (Cramer's rule, exact).  With a
\* NaN in M or b the LAPACK routine either reports a zero pivot (LinAlgError)
\* or returns without error, and then every entry is NaN.
SolveFinite(M, b) ==
    LET d == Det(M)
    IN  IF d = Zero THEN Raise("LinAlgError")
        ELSE Ret(Arr([p \in 1..Len(M) |-> RDiv(Det(WithColumn(M, p, b)), d)]))

Solve(M, b) ==
    IF IsFiniteMat(M) /\ IsFiniteVec(b)
    THEN {SolveFinite(M, b)}
    ELSE {Ret(NaNVec(Len(M))), Raise("LinAlgError")}

\* ------------------------------------------------------- np.linalg.norm
RECURSIVE SumSq(_, _)
\* d[1]^2 + ... + d[p]^2
SumSq(d, p) == IF p = 0 THEN Zero ELSE RAdd(SumSq(d, p - 1), Sq(d[p]))

CeilDiv(a, b) == (a + b - 1) \div b

\* np.linalg.norm(d) < 1e-9 * n (false on NaN).  With SumSq(d) = p/q the test
\* is p * TolInv^2 < n^2 * q, i.e. p < ceil(n^2 q / TolInv^2).  It implies
\* |d[i]| < n / TolInv for every i, which is tested first so that the squares
\* are only formed of entries that small.
NormBelowTol(d, n) ==
    /\ IsFiniteVec(d)
    /\ \A i \in 1..Len(d) : Abs(d[i][1]) < CeilDiv(n * d[i][2], TolInv)
    /\ LET s == SumSq(d, Len(d))
       IN  s[1] < CeilDiv(CeilDiv(n * n * s[2], TolInv), TolInv)

\* ------------------------------------------------------------------- state
VARIABLES
    pc,          \* position of the driver
    err,         \* the exception that ended the run ("" while none)
    c,           \* c = dt/dx**2
    km,          \* the diffusivity triple (k, dk, ddk)
    heap,        \* the numpy arrays, by object id
    u,           \* the driver's name u: an object id
    baseline,    \* heat_compare_gif's baseline (rebound to a new array each step)
    J,           \* the driver's J
    t,           \* the simulation time in units of dt: the timesteps done
    nu,          \* newton_step's parameter u: an object id
    u_prev,      \* newton_step's u_prev: an object id
    u_next,      \* newton_step's u_next: an object id
    it,          \* iterations of the for loop completed in this call
    f,           \* the residual of the latest iteration
    delta,       \* the solution of the linear system of the latest iteration
    brk,         \* whether the loop was left by break
    u_init,      \* history: the samples of u0
    u_start,     \* history: the solution vector when newton_step was called
    iter_before, \* history: the iterate before the latest update
    arg_u,       \* function calls: the argument u
    arg_prev,    \* function calls: the argument prev
    called,      \* function calls: the function applied ("" before the call)
    ret          \* function calls: the outcome

vars == <<pc, err, c, km, heap, u, baseline, J, t, nu, u_prev, u_next, it,
          f, delta, brk, u_init, u_start, iter_before, arg_u, arg_prev, called, ret>>

callVars == <<arg_u, arg_prev, called, ret>>

\* ------------------------------------------------------------------ inputs
Vals == {R(v) : v \in (-MaxVal)..MaxVal}

\* the samples u0(x) at n interior points
FiniteVecs(n) == [1..n -> Vals]

\* a solution vector that holds a NaN (an overflowed run): one NaN sample
NaNVecs(n) == {[p \in 1..n |-> IF p = q THEN NaN ELSE Zero] : q \in 1..n}

\* c = dt/dx**2 > 0
CSet == {Half, One}

\* the diffusivities of the function calls, and those of the runs
KModels == {ConstK(1), ConstK(2), AffineK, SquareK, RationalK}

RunKModels == {ConstK(1), ConstK(2), AffineK, SquareK}

\* TLC's integers are 32-bit.  A run is followed into a further timestep while
\* the arithmetic of that timestep fits: for a constant k (a linear system)
\* while the samples' numerators and denominators are at most MaxMag, else
\* while the solution is again one of the sample vectors.
Followed(k, v) ==
    \/ ~IsFiniteVec(v)
    \/ v \in FiniteVecs(Len(v))
    \/ /\ k.kind = "const"
       /\ \A p \in 1..Len(v) : Abs(v[p][1]) <= MaxMag /\ v[p][2] <= MaxMag

\* ------------------------------------------- heat_compare_gif's A (148-154)
AMatrix(n, cc) ==
    Arr([p \in 1..n |-> Arr([q \in 1..n |->
        IF q = p THEN RAdd(One, RMul(Two, cc))
        ELSE IF q = p - 1 \/ q = p + 1 THEN RNeg(cc)
        ELSE Zero])])

\* -------------------------------------------------------------- the driver
\* The timestep loop of heat_compare_gif's update_plot (163-167); that of
\* run_heat_sim (111-114) is the same without the baseline.
\* 140-146 (101-105): sample u0 at the interior points, derive c
Init ==
    /\ c \in CSet
    /\ km \in RunKModels
    /\ \E n \in 1..MaxN : \E s \in FiniteVecs(n) \cup NaNVecs(n) :
          /\ heap = <<s>>
          /\ baseline = s
          /\ u_init = s
    /\ u = 1
    /\ pc = IF MaxSteps > 0 THEN "assemble" ELSE "done"
    /\ err = ""
    /\ J = <<>>
    /\ t = 0
    /\ nu = 0 /\ u_prev = 0 /\ u_next = 0
    /\ it = 0
    /\ f = <<>> /\ delta = <<>>
    /\ brk = FALSE
    /\ u_start = <<>> /\ iter_before = <<>>
    /\ arg_u = <<>> /\ arg_prev = <<>> /\ called = "" /\ ret = Ret(<<>>)

\* J = generate_jacobian(u, c, k, dk, ddk)   (112, 164)
Assemble ==
    /\ pc = "assemble"
    /\ Followed(km, heap[u])
    /\ LET r == generate_jacobian(heap[u], c, km)
       IN  IF r.exc # ""
           THEN /\ pc' = "error"
                /\ err' = r.exc
                /\ J' = J
           ELSE /\ pc' = "call"
                /\ err' = err
                /\ J' = r.val
    /\ UNCHANGED <<c, km, heap, u, baseline, t, nu, u_prev, u_next, it, f,
                   delta, brk, u_init, u_start, iter_before>>
    /\ UNCHANGED callVars

\* the names newton_step binds on entry (72-73): u_prev = u, u_next = u.  No
\* array is created: the three names are bound to the caller's array.
BindLocals(h, r) == [heap |-> h, u |-> r, u_prev |-> r, u_next |-> r]

\* newton_step(u, J, c, k, dk) is entered (69-73)
NewtonEnter ==
    /\ pc = "call"
    /\ LET b == BindLocals(heap, u)
       IN  /\ heap' = b.heap
           /\ nu' = b.u
           /\ u_prev' = b.u_prev
           /\ u_next' = b.u_next
    /\ it' = 0
    /\ brk' = FALSE
    /\ u_start' = heap[u]
    /\ pc' = "loop"
    /\ UNCHANGED <<err, c, km, u, baseline, J, t, f, delta, u_init, iter_before>>
    /\ UNCHANGED callVars

\* LoopContinues with the bound off by one
LoopContinuesOffByOne(i) == i <= MaxIter

\* for i in range(100): another pass after i passes (75)
LoopContinues(i) == i < MaxIter

\* BreakTest with the comparison inverted
BreakTestInverted(h, rprev, rnext) ==
    ~NormBelowTol(VecSub(h[rprev], h[rnext]), Len(h[rnext]))

\* `if np.linalg.norm(u_prev - u_next) < 1e-9 * n: break` (79), on the arrays
\* the two names are bound to
BreakTest(h, rprev, rnext) ==
    NormBelowTol(VecSub(h[rprev], h[rnext]), Len(h[rnext]))

\* one pass of the loop body (76-80)
NewtonIterate ==
    /\ pc = "loop"
    /\ LoopContinues(it)
    /\ LET rf == F(heap[nu], heap[u_next], c, km)
       IN  IF rf.exc # ""
           THEN /\ pc' = "error"
                /\ err' = rf.exc
                /\ UNCHANGED <<heap, u_prev, it, f, delta, brk, iter_before>>
           ELSE \E rs \in Solve(J, rf.val) :
                  IF rs.exc # ""
                  THEN /\ pc' = "error"
                       /\ err' = rs.exc
                       /\ u_prev' = u_next
                       /\ f' = rf.val
                       /\ UNCHANGED <<heap, it, delta, brk, iter_before>>
                  ELSE LET h2 == [heap EXCEPT ![u_next] = VecSub(heap[u_next], rs.val)]
                       IN  /\ heap' = h2
                           /\ u_prev' = u_next
                           /\ f' = rf.val
                           /\ delta' = rs.val
                           /\ iter_before' = heap[u_next]
                           /\ it' = it + 1
                           /\ err' = err
                           /\ IF BreakTest(h2, u_prev', u_next)
                              THEN brk' = TRUE /\ pc' = "return"
                              ELSE brk' = FALSE /\ pc' = "loop"
    /\ UNCHANGED <<c, km, u, baseline, J, t, nu, u_next, u_init, u_start>>
    /\ UNCHANGED callVars

\* range(100) is exhausted (75): the loop ends without break
LoopExhausted ==
    /\ pc = "loop"
    /\ ~LoopContinues(it)
    /\ pc' = "return"
    /\ UNCHANGED <<err, c, km, heap, u, baseline, J, t, nu, u_prev, u_next,
                   it, f, delta, brk, u_init, u_start, iter_before>>
    /\ UNCHANGED callVars

\* `return u_next` (82) and the rest of the loop body of the driver:
\* u = newton_step(...) (165), baseline = np.linalg.solve(A, baseline) (166),
\* t += dt (167)
Advance ==
    /\ pc = "return"
    /\ u' = u_next
    /\ \E rb \in Solve(AMatrix(Len(baseline), c), baseline) :
          IF rb.exc # ""
          THEN /\ pc' = "error"
               /\ err' = rb.exc
               /\ UNCHANGED <<baseline, t>>
          ELSE /\ baseline' = rb.val
               /\ t' = t + 1
               /\ err' = err
               /\ pc' = IF t + 1 < MaxSteps THEN "assemble" ELSE "done"
    /\ UNCHANGED <<c, km, heap, J, nu, u_prev, u_next, it, f, delta, brk,
                   u_init, u_start, iter_before>>
    /\ UNCHANGED callVars

Next == Assemble \/ NewtonEnter \/ NewtonIterate \/ LoopExhausted \/ Advance

Spec == Init /\ [][Next]_vars

\* ------------------------------------------------------- the function calls
\* F and generate_jacobian applied to arguments of their own: a vector u of
\* finite samples and a prev of the same length
Ramp(n) == [p \in 1..n |-> R(p)]

PrevVecs(v) == {v, ZeroVec(Len(v)), Ramp(Len(v))}

InitFn ==
    /\ c \in CSet
    /\ km \in KModels
    /\ \E n \in 1..MaxN : \E s \in FiniteVecs(n) :
          /\ arg_u = s
          /\ arg_prev \in PrevVecs(s)
    /\ called = ""
    /\ ret = Ret(<<>>)
    /\ pc = "idle"
    /\ err = ""
    /\ heap = <<>> /\ u = 0 /\ baseline = <<>> /\ J = <<>> /\ t = 0
    /\ nu = 0 /\ u_prev = 0 /\ u_next = 0 /\ it = 0
    /\ f = <<>> /\ delta = <<>> /\ brk = FALSE
    /\ u_init = <<>> /\ u_start = <<>> /\ iter_before = <<>>

\* F(u, prev, c, k, dk)
CallF ==
    /\ pc = "idle"
    /\ called = ""
    /\ called' = "F"
    /\ ret' = F(arg_u, arg_prev, c, km)
    /\ UNCHANGED <<pc, err, c, km, heap, u, baseline, J, t, nu, u_prev, u_next, it,
                   f, delta, brk, u_init, u_start, iter_before, arg_u, arg_prev>>

\* generate_jacobian(u, c, k, dk, ddk)
CallJacobian ==
    /\ pc = "idle"
    /\ called = ""
    /\ called' = "generate_jacobian"
    /\ ret' = generate_jacobian(arg_u, c, km)
    /\ UNCHANGED <<pc, err, c, km, heap, u, baseline, J, t, nu, u_prev, u_next, it,
                   f, delta, brk, u_init, u_start, iter_before, arg_u, arg_prev>>

NextFn == CallF \/ CallJacobian

SpecFn == InitFn /\ [][NextFn]_vars

\* =================================================================== claims
IsZeroVec(v) == \A p \in 1..Len(v) : v[p] = Zero

\* the driver is inside a newton_step call and `passes` or more passes are done
InCall(passes) == pc \in {"loop", "return"} /\ it >= passes

\* the driver is between timesteps, after at least one
StepDone == pc \in {"assemble", "done"} /\ t >= 1

\* v[i] for 0 <= i < len(v), and the ghost value 0 outside
Ghost(v, i) == IF InRange(v, i) THEN At(v, i) ELSE Zero

\* the centered differences with ghost values
GhostDu(v, i) == RSub(Ghost(v, i + 1), Ghost(v, i - 1))

GhostDdu(v, i) ==
    RAdd(RSub(Ghost(v, i - 1), RMul(Two, At(v, i))), Ghost(v, i + 1))

\* u_prev[i] - u_iter[i] - c*(0.25*dk(u_iter[i])*du^2 + k(u_iter[i])*ddu)
GhostResidual(v, prev, cc, k, i) ==
    RSub(RSub(At(prev, i), At(v, i)),
         RMul(cc, RAdd(RMul(RMul(Quarter, DK(k, At(v, i))), Sq(GhostDu(v, i))),
                       RMul(K(k, At(v, i)), GhostDdu(v, i)))))

\* the partial derivative of GhostResidual(v, prev, cc, k, i) by v[j]:
\*   j = i:    -1 - cc*(0.25*ddk*du^2 + dk*ddu - 2*k)
\*   j = i-1:  -cc*(-0.5*dk*du + k)
\*   j = i+1:  -cc*( 0.5*dk*du + k)
\* with k, dk, ddk taken at v[i] (du does not depend on v[i])
DResidual(v, cc, k, i, j) ==
    LET x == At(v, i)
        du == GhostDu(v, i)
        ddu == GhostDdu(v, i)
    IN  IF j = i
        THEN RSub(RNeg(One),
                  RMul(cc, RSub(RAdd(RMul(RMul(Quarter, DDK(k, x)), Sq(du)),
                                     RMul(DK(k, x), ddu)),
                                RMul(Two, K(k, x)))))
        ELSE IF j = i - 1
        THEN RNeg(RMul(cc, RAdd(RNeg(RMul(RMul(Half, DK(k, x)), du)), K(k, x))))
        ELSE IF j = i + 1
        THEN RNeg(RMul(cc, RAdd(RMul(RMul(Half, DK(k, x)), du), K(k, x))))
        ELSE Zero

\* DResidual is the derivative of what F computes: for a residual that is a
\* polynomial of degree at most 4 in each u[j] (k constant, affine or square)
\* the five-point difference quotient of F is exact.
Bump(v, j, d) == [p \in 1..Len(v) |-> IF p = j + 1 THEN RAdd(v[p], R(d)) ELSE v[p]]

FAt(v, prev, cc, k, i, j, d) == F(Bump(v, j, d), prev, cc, k).val[i + 1]

FivePoint(v, prev, cc, k, i, j) ==
    RMul(Frac(1, 12),
         RAdd(RMul(R(8), RSub(FAt(v, prev, cc, k, i, j, 1), FAt(v, prev, cc, k, i, j, -1))),
              RSub(FAt(v, prev, cc, k, i, j, -2), FAt(v, prev, cc, k, i, j, 2))))

DResidualIsDerivativeOfF ==
    (called = "F" /\ Len(arg_u) >= 2 /\ km.kind # "rational") =>
        \A i, j \in 0..(Len(arg_u) - 1) :
            FivePoint(arg_u, arg_prev, c, km, i, j) = DResidual(arg_u, c, km, i, j)

\* the implicit-Euler matrix of the linear heat equation: 1 + 2*cc*k0 on the
\* diagonal, -cc*k0 beside it, 0 elsewhere
Tridiag(n, cc, k0) ==
    Arr([p \in 1..n |-> Arr([q \in 1..n |->
        IF q = p THEN RAdd(One, RMul(Two, RMul(cc, k0)))
        ELSE IF q = p - 1 \/ q = p + 1 THEN RNeg(RMul(cc, k0))
        ELSE Zero])])

RECURSIVE Dot(_, _, _)
\* a[1]*b[1] + ... + a[p]*b[p]
Dot(a, b, p) == IF p = 0 THEN Zero ELSE RAdd(Dot(a, b, p - 1), RMul(a[p], b[p]))

MatVec(M, v) == Arr([p \in 1..Len(M) |-> Dot(M[p], v, Len(v))])

\* C1: in every pass of the Newton loop the linear system is solved with the
\* Jacobian assembled at the iterate that is current at the start of that pass.
C1_JacobianAtCurrentIterate ==
    InCall(1) => Ret(J) = generate_jacobian(iter_before, c, km)

\* C2: during a newton_step call the solution vector of the previous timestep
\* keeps the value it had when the call started, and the residual of every pass
\* is F at (iterate before the pass, that previous solution).
C2_PrevSolutionUnchanged ==
    IsFiniteVec(u_start) =>
        /\ InCall(0) => heap[nu] = u_start
        /\ InCall(1) => Ret(f) = F(iter_before, u_start, c, km)

\* C3: a pass before the cap ends the loop if and only if the Euclidean norm of
\* (iterate before the pass - iterate after it) is below 1e-9*n.
C3_StopsIffChangeBelowTol ==
    (InCall(1) /\ it < MaxIter /\ IsFiniteVec(u_start)) =>
        (pc = "return" <=>
            NormBelowTol(VecSub(iter_before, heap[u_next]), Len(heap[u_next])))

\* C4: for n >= 2 every entry J[i][j] returned by generate_jacobian is the
\* partial derivative of the residual component f[i] of F by u[j].
C4_JacobianIsExactDerivative ==
    (called = "generate_jacobian" /\ Len(arg_u) >= 2) =>
        \A i, j \in 0..(Len(arg_u) - 1) :
            ret.val[i + 1][j + 1] = DResidual(arg_u, c, km, i, j)

\* C5: for n >= 2, F returns prev[i] - u[i] - c*(0.25*dk(u[i])*du^2 + k(u[i])*ddu)
\* at every index, du and ddu being the centered differences with a zero ghost
\* value for the neighbour out of range.
C5_ResidualMatchesGhostFormula ==
    (called = "F" /\ Len(arg_u) >= 2) =>
        ret = Ret(Arr([p \in 1..Len(arg_u) |->
                    GhostResidual(arg_u, arg_prev, c, km, p - 1)]))

C5_Witness ==
    /\ called = "F"
    /\ Len(arg_u) = MaxN
    /\ km = SquareK
    /\ arg_prev # arg_u
    /\ \A p \in 1..Len(arg_u) : arg_u[p] # Zero
    /\ ret.exc = ""
    /\ \A p \in 1..Len(arg_u) : ret.val[p] # Zero

\* C6: for a constant k = k0 and n >= 2, generate_jacobian returns the matrix
\* with 1 + 2*c*k0 on the diagonal, -c*k0 beside it and 0 elsewhere, whatever u.
C6_ConstantKJacobianIsTridiagonal ==
    (called = "generate_jacobian" /\ km.kind = "const" /\ Len(arg_u) >= 2) =>
        ret = Ret(Tridiag(Len(arg_u), c, km.k0))

\* n = 3, k0 = 1, c = 0.5 at a non-zero u: [[2,-0.5,0],[-0.5,2,-0.5],[0,-0.5,2]]
C6_Witness ==
    /\ called = "generate_jacobian"
    /\ km = ConstK(1)
    /\ c = Half
    /\ arg_u = <<Zero, One, Zero>>
    /\ ret = Ret(<< <<Two, RNeg(Half), Zero>>,
                    <<RNeg(Half), Two, RNeg(Half)>>,
                    <<Zero, RNeg(Half), Two>> >>)

C8_TerminatesWithinCap ==
    /\ it <= MaxIter
    /\ (pc = "return" /\ ~brk) => (it = MaxIter /\ err = "")
    /\ StepDone => (u = u_next /\ err = "")

C8_Witness ==
    /\ StepDone
    /\ ~brk
    /\ it = MaxIter
    /\ err = ""
    /\ u = u_next

\* C9: a solution vector of length 1 (nx = 1) goes through the timestep without
\* an error.
C9_SinglePointAccepted ==
    Len(u_init) = 1 => pc # "error"

\* C10: for a constant k = k0 and n >= 2, a timestep from a finite u_old yields
\* u_new with Tridiag(c, k0) * u_new = u_old; for k0 = 1 the solution and the
\* baseline of heat_compare_gif are equal after every timestep.
C10_ConstantKIsLinearStep ==
    (km.kind = "const" /\ Len(u_init) >= 2) =>
        /\ ((pc = "return" \/ StepDone) /\ IsFiniteVec(u_start)) =>
              MatVec(Tridiag(Len(u_start), c, km.k0), heap[u_next]) = u_start
        /\ (km = ConstK(1) /\ pc \in {"assemble", "done"}) => heap[u] = baseline

C10_Witness ==
    /\ pc = "done"
    /\ t = MaxSteps
    /\ km = ConstK(1)
    /\ Len(u_init) = MaxN
    /\ IsFiniteVec(u_init)
    /\ ~IsZeroVec(u_init)
    /\ heap[u] # u_init
    /\ heap[u] = baseline
    /\ MatVec(Tridiag(Len(u_start), c, km.k0), heap[u]) = u_start

====
